---- MODULE Spec2Model ----
(***************************************************************************)
(* Model of the es_reindex management command                              *)
(* (django_elasticsearch_dsl/management/commands/es_reindex.py).           *)
(*                                                                         *)
(* The command resolves the selected models, publishes one index template  *)
(* per document, populates one physical index per document under the run   *)
(* identifier (index_base_id), optionally refreshes, and then moves the    *)
(* wildcard alias and the fixed aliases of every index family.             *)
(*                                                                         *)
(* The search cluster is the state: the set of physical indexes, the       *)
(* alias -> index relation and the index templates.  Every cluster request *)
(* the command issues is one step, so the states of a behaviour are        *)
(* exactly the states observable between two cluster requests.  Names are  *)
(* sequences of one-character strings, so startswith, replace and the      *)
(* wildcard match are computed on the text the code computes them on.      *)
(***************************************************************************)
EXTENDS Integers, Sequences, FiniteSets, TLC

(* ------------------------------ bounds --------------------------------- *)

\* number of invocations of the command in one behaviour
MaxRuns == 2

\* number of cluster requests that fail with a transport error in one behaviour
MaxFaults == 1

\* length of the --models selector list
MaxSelectors == 2

(* ------------------------------ text ----------------------------------- *)

Digit(d) == <<"0", "1", "2", "3", "4", "5", "6", "7", "8", "9">>[d + 1]

RECURSIVE Str(_)
\* str(index_base_id): the decimal text of the run identifier
Str(n) == IF n < 10 THEN <<Digit(n)>> ELSE Str(n \div 10) \o <<Digit(n % 10)>>

\* str.startswith
StartsWith(s, p) == Len(p) <= Len(s) /\ SubSeq(s, 1, Len(p)) = p

RECURSIVE Replace(_, _)
\* str.replace(old, ""): every non-overlapping occurrence, left to right
Replace(s, old) ==
    IF Len(s) = 0 THEN <<>>
    ELSE IF StartsWith(s, old) THEN Replace(SubSeq(s, Len(old) + 1, Len(s)), old)
    ELSE <<Head(s)>> \o Replace(Tail(s), old)

LowerChar(c) ==
    CASE c = "S" -> "s" [] c = "H" -> "h" [] c = "F" -> "f" [] c = "M" -> "m"
      [] OTHER -> c

\* str.lower
Lower(s) == [i \in 1..Len(s) |-> LowerChar(s[i])]

\* the orders in which the keys of a response dictionary can be listed
Perms(S) == {l \in [1..Cardinality(S) -> S] : {l[i] : i \in 1..Cardinality(S)} = S}

(* ------------------------------ registry ------------------------------- *)

\* The registered models: app label, model name, the index family of the
\* model's document (doc._index._name) and the document's index suffix.
Registry ==
    { [app_label |-> <<"s", "h">>, model_name |-> <<"b", "k">>, index |-> <<"b">>, doc |-> <<"x">>],
      [app_label |-> <<"s", "h">>, model_name |-> <<"f", "m">>, index |-> <<"b">>, doc |-> <<"y">>] }

\* the selector strings an operator passes in --models
Selectors == { <<"s", "h">>, <<"S", "H", ".", "F", "M">>, <<"n", "o">> }

\* the run identifiers (--index-base-id); the text of 1 is a prefix of the text of 10
RunIds == {1, 10}

SelectorLists == UNION {[1..n -> Selectors] : n \in 0..MaxSelectors}

\* parser.set_defaults(alias_wildcard_pattern=..., alias_fixed_pattern=...)
alias_wildcard_pattern == <<"_", "r", "_", "w", "i", "l", "d", "c", "a", "r", "d">>
alias_fixed_pattern == <<"_", "r">>

\* registry.get_indices(models): the families of the selected models
GetIndices(ms) == {m.index : m \in ms}

\* variant: the pattern of _refresh_new_indexes, "{0}-*", is used for the family
PatternOfRun(r, name) == Str(r) \o <<"-", "*">>

\* "{0}-{1}-*".format(index_base_id, index._name)
Pattern(r, name) == Str(r) \o <<"-">> \o name \o <<"-", "*">>

\* the physical index a document is written to under a run identifier
IndexName(r, m) == Str(r) \o <<"-">> \o m.index \o <<"-">> \o m.doc

\* "{0}{1}".format(index._name, options["alias_wildcard_pattern"])
WildcardAlias(name) == name \o alias_wildcard_pattern

\* variant: the dash after "{0}-{1}" is taken off the index name as well
FixedAliasOfSuffix(r, name, current_index) ==
    LET index_postfix == Replace(current_index, Str(r) \o <<"-">> \o name \o <<"-">>)
    IN  name \o alias_fixed_pattern \o index_postfix

\* the fixed alias computed for one index resolved by the wildcard alias
FixedAlias(r, name, current_index) ==
    LET index_postfix == Replace(current_index, Str(r) \o <<"-">> \o name)
    IN  name \o alias_fixed_pattern \o index_postfix

\* Matching of a model against one lowercased selector
ModelMatches(m, arg) ==
    \/ m.app_label = arg
    \/ Lower(m.app_label) \o <<".">> \o Lower(m.model_name) = arg

\* a selector that matches no registered model
Unknown(arg) == \A m \in Registry : ~ModelMatches(m, Lower(arg))

RECURSIVE GetModelsFrom(_, _, _)
\* the loop over the selectors: the first selector without a match raises
GetModelsFrom(args, i, acc) ==
    IF i > Len(args) THEN [error |-> FALSE, arg |-> <<>>, models |-> acc]
    ELSE LET arg == Lower(args[i])
             found == {m \in Registry : ModelMatches(m, arg)}
         IN  IF found = {} THEN [error |-> TRUE, arg |-> arg, models |-> {}]
             ELSE GetModelsFrom(args, i + 1, acc \cup found)

\* variant: match_found is never reset, one matching selector is enough
GetModelsAnyMatch(args) ==
    LET found == {m \in Registry : \E i \in 1..Len(args) : ModelMatches(m, Lower(args[i]))}
    IN  IF Len(args) = 0 THEN [error |-> FALSE, arg |-> <<>>, models |-> Registry]
        ELSE IF found = {} THEN [error |-> TRUE, arg |-> Lower(args[1]), models |-> {}]
        ELSE [error |-> FALSE, arg |-> <<>>, models |-> found]

\* Command._get_models: the set of selected models, or the CommandError
GetModels(args) ==
    IF Len(args) > 0 THEN GetModelsFrom(args, 1, {})
    ELSE [error |-> FALSE, arg |-> <<>>, models |-> Registry]

(* ------------------------------ cluster -------------------------------- *)

VARIABLES
    indices,          \* the physical indexes that exist
    aliases,          \* the pairs <<alias, index>>: the alias is on the index
    templates,        \* the index templates, as pairs <<name, pattern>>
    pc,               \* position of the command
    options,          \* options of the current (or last) invocation
    models,           \* the models resolved by _get_models
    todo,             \* documents still to visit in the current pass
    families,         \* index families still to visit in _update_alias
    index,            \* the family being updated
    old_indexes,      \* list(get_alias(...).keys()) of the alias being replaced
    current_indexes,  \* list(get_alias(w_alias).keys()) in _update_fixed_indexes
    pos,              \* position of the loop over current_indexes
    outcome,          \* how the last invocation ended
    message,          \* the selector named by the CommandError
    unmatched,        \* the selectors of the invocation that match no registered model
    matched,          \* some selector of the invocation matches a registered model
    issued,           \* template saves, bulk loads and refreshes issued by the invocation
    requests,         \* the alias reads, alias updates and deletes of the invocation, in order
    runs,             \* invocations started
    faults,           \* transport errors injected
    failed,           \* the position at which a request of the invocation failed
    aliases0,         \* the alias relation when the invocation started
    indices0,         \* the physical indexes when the invocation started
    written,          \* the indexes the invocation has written to
    rerun             \* the invocation repeats the one before, which returned normally

cluster == <<indices, aliases, templates>>
locals == <<todo, families, index, old_indexes, current_indexes, pos>>
history == <<aliases0, indices0, rerun, runs, unmatched, matched>>
vars == <<indices, aliases, templates, pc, options, models, todo, families, index,
          old_indexes, current_indexes, pos, outcome, message, unmatched, matched,
          issued, requests, runs, faults, failed, aliases0, indices0, written, rerun>>

\* es.indices.get_alias(name=alias): the indexes the alias is on; the request
\* fails with NotFoundError when there is none
GetAlias(alias) == {i \in indices : <<alias, i>> \in aliases}

\* the indexes an index expression (a name or a trailing-* pattern) resolves to
Resolve(expr) ==
    IF Len(expr) > 0 /\ expr[Len(expr)] = "*"
    THEN {i \in indices : StartsWith(i, SubSeq(expr, 1, Len(expr) - 1))}
    ELSE {i \in indices : i = expr}

\* es.indices.update_aliases is one atomic request: it fails as not found, and
\* changes nothing, when an index it names does not exist or the add
\* expression resolves to no index
UpdateAliasesFound(remove, add) == remove \subseteq indices /\ Resolve(add) # {}

\* variant: a swap that only removes, the add being left to a later request
UpdateAliasesRemoveOnly(alias, remove, add) ==
    IF remove = {}
    THEN aliases \cup {<<alias, i>> : i \in Resolve(add)}
    ELSE aliases \ {<<alias, i>> : i \in remove}

\* variant: a swap that only adds
UpdateAliasesAddOnly(alias, remove, add) ==
    aliases \cup {<<alias, i>> : i \in Resolve(add)}

\* the effect of the request on the alias relation
UpdateAliases(alias, remove, add) ==
    (aliases \ {<<alias, i>> : i \in remove}) \cup {<<alias, i>> : i \in Resolve(add)}

\* es.indices.delete: deleting an index removes the aliases that are on it
DeleteAliases(names) == {p \in aliases : p[2] \notin names}

\* the index names of a list
Range(l) == {l[i] : i \in 1..Len(l)}

\* one alias read, alias update or delete, as it is issued
Request(op, stage, name, alias, remove, add, result) ==
    [op |-> op, stage |-> stage, index |-> name, alias |-> alias,
     remove |-> remove, add |-> add, result |-> result]

\* before the first invocation
NoOptions == [index_base_id |-> 0, alias |-> FALSE, wipe_old_indexes |-> FALSE,
              refresh_new_indexes |-> FALSE]

NoneIssued == [templates |-> 0, bulk |-> 0, refresh |-> 0, refreshed |-> {}]

Init ==
    /\ indices = {}
    /\ aliases = {}
    /\ templates = {}
    /\ pc = "idle"
    /\ options = NoOptions
    /\ models = {}
    /\ todo = {}
    /\ families = {}
    /\ index = <<>>
    /\ old_indexes = <<>>
    /\ current_indexes = <<>>
    /\ pos = 0
    /\ outcome = "none"
    /\ message = <<>>
    /\ unmatched = {}
    /\ matched = FALSE
    /\ issued = NoneIssued
    /\ requests = <<>>
    /\ runs = 0
    /\ faults = 0
    /\ failed = "none"
    /\ aliases0 = {}
    /\ indices0 = {}
    /\ written = {}
    /\ rerun = FALSE

\* a request may fail with a transport error while the budget lasts
Fault(f) ==
    /\ f => faults < MaxFaults
    /\ faults' = IF f THEN faults + 1 ELSE faults
    /\ failed' = IF f THEN pc ELSE failed

\* an exception leaves handle: the invocation is over
Raise(kind) ==
    /\ pc' = "idle"
    /\ outcome' = kind
    /\ todo' = {}
    /\ families' = {}
    /\ index' = <<>>
    /\ old_indexes' = <<>>
    /\ current_indexes' = <<>>
    /\ pos' = 0

\* handle returns normally
Return ==
    /\ pc' = "idle"
    /\ outcome' = "ok"
    /\ todo' = {}
    /\ families' = {}
    /\ index' = <<>>
    /\ old_indexes' = <<>>
    /\ current_indexes' = <<>>
    /\ pos' = 0


\* the command moves on inside handle
Step(p, t, fs, ix, old, cur, ps) ==
    /\ pc' = p
    /\ outcome' = outcome
    /\ todo' = t
    /\ families' = fs
    /\ index' = ix
    /\ old_indexes' = old
    /\ current_indexes' = cur
    /\ pos' = ps

\* the request is issued
Log(r) == requests' = Append(requests, r)

(* ------------------------------ handle --------------------------------- *)

\* The command is run: its options are parsed (add_arguments) and handle is
\* entered with them; the cluster it finds is remembered
Execute(o) ==
    /\ pc = "idle"
    /\ runs < MaxRuns
    /\ runs' = runs + 1
    /\ rerun' = (outcome = "ok" /\ o = options)
    /\ aliases0' = aliases
    /\ indices0' = indices
    /\ written' = {}
    /\ issued' = NoneIssued
    /\ requests' = <<>>
    /\ options' = o
    /\ pc' = "handle"
    /\ outcome' = "running"
    /\ message' = <<>>
    /\ failed' = "none"
    /\ unmatched' = {}
    /\ matched' = FALSE
    /\ UNCHANGED <<indices, aliases, templates, faults, models, locals>>

\* handle, line 229: _get_models(options["models"]) runs before any cluster
\* request and its CommandError ends the invocation
Handle(args) ==
    /\ pc = "handle"
    /\ unmatched' = {Lower(args[i]) : i \in {j \in 1..Len(args) : Unknown(args[j])}}
    /\ matched' = \E i \in 1..Len(args) : ~Unknown(args[i])
    /\ LET res == GetModels(args)
       IN  IF res.error
           THEN /\ models' = {}
                /\ message' = res.arg
                /\ rerun' = FALSE
                /\ Raise("CommandError")
           ELSE /\ models' = res.models
                /\ message' = <<>>
                /\ rerun' = (rerun /\ res.models = models)
                /\ pc' = "templates"
                /\ outcome' = outcome
                /\ todo' = res.models
                /\ UNCHANGED <<families, index, old_indexes, current_indexes, pos>>
    /\ UNCHANGED <<indices, aliases, templates, faults, failed, options, issued, requests,
                   written, aliases0, indices0, runs>>

\* variant: _update_alias calls _update_fixed_indexes without _update_wildcard_indexes
UpdateFixedOnly ==
    IF options.alias
    THEN Step("f_get", {}, GetIndices(models), CHOOSE name \in GetIndices(models) : TRUE,
              <<>>, <<>>, 0)
    ELSE Return

\* _update_alias, entered when options["alias"] is set
UpdateAlias ==
    IF options.alias
    THEN Step("w_get", {}, GetIndices(models), <<>>, <<>>, <<>>, 0)
    ELSE Return

\* the loop of _update_alias moves to the next family, or handle returns
NextFamily ==
    LET rest == families \ {index}
    IN  IF rest = {} THEN Return
        ELSE Step("w_get", {}, rest, <<>>, <<>>, <<>>, 0)

\* _create_index_templates: one template save per document
CreateIndexTemplate ==
    /\ pc = "templates"
    /\ \E m \in todo, f \in BOOLEAN :
        LET pattern == Pattern(options.index_base_id, m.index)
            rest == todo \ {m}
        IN  /\ Fault(f)
            /\ issued' = [issued EXCEPT !.templates = @ + 1]
            /\ IF f
               THEN /\ Raise("TransportError")
                    /\ UNCHANGED templates
               ELSE /\ templates' = {t \in templates : t[1] # m.index} \cup {<<m.index, pattern>>}
                    /\ IF rest = {}
                       THEN Step("populate", models, families, index, old_indexes, current_indexes, pos)
                       ELSE Step("templates", rest, families, index, old_indexes, current_indexes, pos)
    /\ UNCHANGED <<indices, aliases, options, models, message, written, requests, history>>

\* doc().update(qs, parallel=parallel, index_base_id=index_base_id): the
\* document's records are written to the physical index of this run; a
\* failed bulk load may already have created the index
DocUpdate(m, f, created) ==
    LET name == IndexName(options.index_base_id, m)
    IN  /\ indices' = IF f /\ ~created THEN indices ELSE indices \cup {name}
        /\ written' = IF f /\ ~created THEN written ELSE written \cup {name}

\* variant: handle refreshes whatever options["refresh_new_indexes"] says
AfterReindexRefreshing ==
    Step("refresh", {}, families, index, old_indexes, current_indexes, pos)

\* what handle does after _reindex_as_new
AfterReindex ==
    IF options.refresh_new_indexes
    THEN Step("refresh", {}, families, index, old_indexes, current_indexes, pos)
    ELSE UpdateAlias

\* variant: a failed bulk load is skipped and the loop goes on
ReindexFailedSkipped(rest) ==
    IF rest = {}
    THEN AfterReindex
    ELSE Step("populate", rest, families, index, old_indexes, current_indexes, pos)

\* an exception of doc().update is caught neither in _reindex_as_new nor in handle
ReindexFailed(rest) == Raise("TransportError")

\* _reindex_as_new: one bulk load per document; a failure propagates
ReindexAsNew ==
    /\ pc = "populate"
    /\ \E m \in todo, f \in BOOLEAN, created \in BOOLEAN :
        LET rest == todo \ {m}
        IN  /\ Fault(f)
            /\ ~f => created
            /\ issued' = [issued EXCEPT !.bulk = @ + 1]
            /\ DocUpdate(m, f, created)
            /\ IF f
               THEN /\ ReindexFailed(rest)
               ELSE /\ IF rest = {}
                       THEN AfterReindex
                       ELSE Step("populate", rest, families, index, old_indexes, current_indexes, pos)
    /\ UNCHANGED <<aliases, templates, options, models, message, requests, history>>

\* "{0}-*".format(options["index_base_id"])
RefreshPattern(r) == Str(r) \o <<"-", "*">>

\* _refresh_new_indexes: one refresh of "{0}-*".format(index_base_id)
RefreshNewIndexes ==
    /\ pc = "refresh"
    /\ \E f \in BOOLEAN :
        /\ Fault(f)
        /\ issued' = [issued EXCEPT !.refresh = @ + 1,
                                    !.refreshed = @ \cup {RefreshPattern(options.index_base_id)}]
        /\ IF f
           THEN /\ Raise("TransportError")
           ELSE /\ UpdateAlias
    /\ UNCHANGED <<cluster, options, models, message, written, requests, history>>

(* ------------------------- _update_wildcard_indexes -------------------- *)

\* variant: the same-run guard is missing
SameRunNever(l) == FALSE

\* variant: the same-run guard always fires
SameRunAlways(l) == TRUE

\* the same-run test on the first index the alias read returned
SameRun(l) == StartsWith(l[1], Str(options.index_base_id))

\* es.indices.get_alias(name=alias) and the test of old_indexes[0]
WildcardGetAlias ==
    /\ pc = "w_get"
    /\ \E name \in families, f \in BOOLEAN :
        LET alias == WildcardAlias(name)
            found == GetAlias(alias)
            result == IF f THEN "error" ELSE IF found = {} THEN "notfound" ELSE "ok"
        IN  /\ Fault(f)
            /\ Log(Request("get_alias", "wildcard", name, alias, {}, <<>>, result))
            /\ IF f
               THEN /\ Raise("TransportError")
               ELSE /\ UNCHANGED faults
                    /\ IF found = {}
                       THEN Step("w_create", {}, families, name, <<>>, <<>>, 0)
                       ELSE \E l \in Perms(found) :
                              IF SameRun(l)
                              THEN Step("f_get", {}, families, name, <<>>, <<>>, 0)
                              ELSE Step("w_swap", {}, families, name, l, <<>>, 0)
    /\ UNCHANGED <<cluster, options, models, message, written, issued, history>>

\* what follows a successful swap
AfterSwap ==
    IF options.wipe_old_indexes /\ ~SameRun(old_indexes)
    THEN Step("w_delete", {}, families, index, old_indexes, <<>>, 0)
    ELSE Step("f_get", {}, families, index, <<>>, <<>>, 0)

\* variant: a failure of the swap request is swallowed and the step goes on
SwapFailedIgnored == AfterSwap

\* an exception of the swap request other than NotFoundError is not caught
SwapFailed == Raise("TransportError")

\* the combined request: remove the alias from old_indexes, add it to the pattern
WildcardSwap ==
    /\ pc = "w_swap"
    /\ \E f \in BOOLEAN :
        LET alias == WildcardAlias(index)
            pattern == Pattern(options.index_base_id, index)
            remove == Range(old_indexes)
            found == UpdateAliasesFound(remove, pattern)
            result == IF f THEN "error" ELSE IF found THEN "ok" ELSE "notfound"
        IN  /\ Fault(f)
            /\ Log(Request("update_aliases", "wildcard", index, alias, remove, pattern, result))
            /\ IF f
               THEN /\ SwapFailed
                    /\ UNCHANGED aliases
               ELSE /\ UNCHANGED faults
                    /\ IF found
                       THEN /\ aliases' = UpdateAliases(alias, remove, pattern)
                            /\ AfterSwap
                       ELSE /\ UNCHANGED aliases
                            /\ Step("w_create", {}, families, index, <<>>, <<>>, 0)
    /\ UNCHANGED <<indices, templates, options, models, message, written, issued, history>>

\* es.indices.delete(index=",".join(old_indexes))
WildcardDelete ==
    /\ pc = "w_delete"
    /\ \E f \in BOOLEAN :
        LET names == Range(old_indexes)
            found == names \subseteq indices
            result == IF f THEN "error" ELSE IF found THEN "ok" ELSE "notfound"
        IN  /\ Fault(f)
            /\ Log(Request("delete", "wildcard", index, <<>>, names, <<>>, result))
            /\ IF f
               THEN /\ Raise("TransportError")
                    /\ UNCHANGED <<indices, aliases>>
               ELSE /\ UNCHANGED faults
                    /\ IF found
                       THEN /\ indices' = indices \ names
                            /\ aliases' = DeleteAliases(names)
                            /\ Step("f_get", {}, families, index, <<>>, <<>>, 0)
                       ELSE /\ UNCHANGED <<indices, aliases>>
                            /\ Step("w_create", {}, families, index, <<>>, <<>>, 0)
    /\ UNCHANGED <<templates, options, models, message, written, issued, history>>

\* except NotFoundError: the add-only request
WildcardCreate ==
    /\ pc = "w_create"
    /\ \E f \in BOOLEAN :
        LET alias == WildcardAlias(index)
            pattern == Pattern(options.index_base_id, index)
            found == UpdateAliasesFound({}, pattern)
            result == IF f THEN "error" ELSE IF found THEN "ok" ELSE "notfound"
        IN  /\ Fault(f)
            /\ Log(Request("update_aliases", "wildcard", index, alias, {}, pattern, result))
            /\ IF f
               THEN /\ Raise("TransportError")
                    /\ UNCHANGED aliases
               ELSE /\ UNCHANGED faults
                    /\ IF found
                       THEN /\ aliases' = UpdateAliases(alias, {}, pattern)
                            /\ Step("f_get", {}, families, index, <<>>, <<>>, 0)
                       ELSE /\ UNCHANGED aliases
                            /\ Raise("NotFoundError")
    /\ UNCHANGED <<indices, templates, options, models, message, written, issued, history>>

(* ------------------------- _update_fixed_indexes ----------------------- *)

\* es.indices.get_alias(name=w_alias) and the test of current_indexes[0];
\* the message of the except branch is formatted with a missing argument,
\* so that branch raises IndexError
FixedGetWildcard ==
    /\ pc = "f_get"
    /\ \E f \in BOOLEAN :
        LET w_alias == WildcardAlias(index)
            found == GetAlias(w_alias)
            result == IF f THEN "error" ELSE IF found = {} THEN "notfound" ELSE "ok"
        IN  /\ Fault(f)
            /\ Log(Request("get_alias", "fixed", index, w_alias, {}, <<>>, result))
            /\ IF f
               THEN /\ Raise("TransportError")
               ELSE /\ UNCHANGED faults
                    /\ IF found = {}
                       THEN Raise("IndexError")
                       ELSE \E l \in Perms(found) :
                              IF ~SameRun(l)
                              THEN NextFamily
                              ELSE Step("fx_get", {}, families, index, <<>>, l, 1)
    /\ UNCHANGED <<cluster, options, models, message, written, issued, history>>

\* the loop over current_indexes moves on, or the family is done
NextIndex ==
    IF pos < Len(current_indexes)
    THEN Step("fx_get", {}, families, index, <<>>, current_indexes, pos + 1)
    ELSE NextFamily

\* es.indices.get_alias(name=alias) for the fixed alias of current_index
FixedGetAlias ==
    /\ pc = "fx_get"
    /\ \E f \in BOOLEAN :
        LET current_index == current_indexes[pos]
            alias == FixedAlias(options.index_base_id, index, current_index)
            found == GetAlias(alias)
            result == IF f THEN "error" ELSE IF found = {} THEN "notfound" ELSE "ok"
        IN  /\ Fault(f)
            /\ Log(Request("get_alias", "fixed", index, alias, {}, <<>>, result))
            /\ IF f
               THEN /\ Raise("TransportError")
               ELSE /\ UNCHANGED faults
                    /\ IF found = {}
                       THEN Step("fx_create", {}, families, index, <<>>, current_indexes, pos)
                       ELSE \E l \in Perms(found) :
                              Step("fx_swap", {}, families, index, l, current_indexes, pos)
    /\ UNCHANGED <<cluster, options, models, message, written, issued, history>>

\* the combined request: remove the fixed alias from old_indexes, add it to current_index
FixedSwap ==
    /\ pc = "fx_swap"
    /\ \E f \in BOOLEAN :
        LET current_index == current_indexes[pos]
            alias == FixedAlias(options.index_base_id, index, current_index)
            remove == Range(old_indexes)
            found == UpdateAliasesFound(remove, current_index)
            result == IF f THEN "error" ELSE IF found THEN "ok" ELSE "notfound"
        IN  /\ Fault(f)
            /\ Log(Request("update_aliases", "fixed", index, alias, remove, current_index, result))
            /\ IF f
               THEN /\ Raise("TransportError")
                    /\ UNCHANGED aliases
               ELSE /\ UNCHANGED faults
                    /\ IF found
                       THEN /\ aliases' = UpdateAliases(alias, remove, current_index)
                            /\ NextIndex
                       ELSE /\ UNCHANGED aliases
                            /\ Step("fx_create", {}, families, index, <<>>, current_indexes, pos)
    /\ UNCHANGED <<indices, templates, options, models, message, written, issued, history>>

\* except NotFoundError: the add-only request for the fixed alias; its own
\* NotFoundError reaches the outer except branch, whose message raises IndexError
FixedCreate ==
    /\ pc = "fx_create"
    /\ \E f \in BOOLEAN :
        LET current_index == current_indexes[pos]
            alias == FixedAlias(options.index_base_id, index, current_index)
            found == UpdateAliasesFound({}, current_index)
            result == IF f THEN "error" ELSE IF found THEN "ok" ELSE "notfound"
        IN  /\ Fault(f)
            /\ Log(Request("update_aliases", "fixed", index, alias, {}, current_index, result))
            /\ IF f
               THEN /\ Raise("TransportError")
                    /\ UNCHANGED aliases
               ELSE /\ UNCHANGED faults
                    /\ IF found
                       THEN /\ aliases' = UpdateAliases(alias, {}, current_index)
                            /\ NextIndex
                       ELSE /\ UNCHANGED aliases
                            /\ Raise("IndexError")
    /\ UNCHANGED <<indices, templates, options, models, message, written, issued, history>>

(* ------------------------------ behaviours ----------------------------- *)

Options ==
    [index_base_id : RunIds, alias : BOOLEAN, wipe_old_indexes : BOOLEAN,
     refresh_new_indexes : BOOLEAN]

Run == \E o \in Options : Execute(o)

GetModelsOfArgs == \E args \in SelectorLists : Handle(args)

Next ==
    \/ Run
    \/ GetModelsOfArgs
    \/ CreateIndexTemplate
    \/ ReindexAsNew
    \/ RefreshNewIndexes
    \/ WildcardGetAlias
    \/ WildcardSwap
    \/ WildcardDelete
    \/ WildcardCreate
    \/ FixedGetWildcard
    \/ FixedGetAlias
    \/ FixedSwap
    \/ FixedCreate

Spec == Init /\ [][Next]_vars

\* The cluster is shared: between two requests of the wildcard step another
\* client deletes an index the step has read from the alias; the request
\* that names it next (the swap or the delete) is answered with not found
IndexDeletedElsewhere ==
    /\ pc \in {"w_swap", "w_delete"}
    /\ faults < MaxFaults
    /\ faults' = faults + 1
    /\ \E gone \in Range(old_indexes) \cap indices :
        /\ indices' = indices \ {gone}
        /\ aliases' = DeleteAliases({gone})
    /\ UNCHANGED <<templates, pc, options, models, locals, outcome, message, issued,
                   requests, failed, written, history>>

NextShared == Next \/ IndexDeletedElsewhere

SpecShared == Init /\ [][NextShared]_vars

(* ------------------------------ properties ----------------------------- *)

\* the index families of the registry
AllFamilies == GetIndices(Registry)

\* the indexes an alias resolved to when the invocation started
GetAlias0(alias) == {i \in indices0 : <<alias, i>> \in aliases0}

\* the wildcard alias and the fixed aliases of a family, with the indexes they resolve to
FamilyAliases(name, A, I) ==
    {p \in A : StartsWith(p[1], name \o alias_fixed_pattern) /\ p[2] \in I}

\* the fixed alias of a document type: {family}{fixed_suffix}-{doc_suffix}
DocAlias(m) == m.index \o alias_fixed_pattern \o <<"-">> \o m.doc

\* the invocation has returned normally
Done == pc = "idle" /\ outcome = "ok"

Mutation(r) == r.op = "update_aliases" \/ r.op = "delete"

\* C1: an invocation that repeats, with the same run identifier, models and
\* options, the invocation before it (which returned normally with alias
\* update enabled) ends with the wildcard alias and every fixed alias of each
\* processed family resolving to the indexes they resolved to after the first.
C1_Idempotent ==
    (pc = "idle" /\ rerun /\ options.alias /\ outcome # "TransportError") =>
        \A name \in GetIndices(models) :
            FamilyAliases(name, aliases, indices) = FamilyAliases(name, aliases0, indices0)

C1_Witness ==
    /\ Done /\ rerun /\ options.alias /\ options.wipe_old_indexes
    /\ GetIndices(models) = AllFamilies
    /\ \A name \in AllFamilies : FamilyAliases(name, aliases, indices) # {}
    /\ \E i \in 1..Len(requests) : requests[i].op = "update_aliases"

\* C2 as stated: on such a repeated invocation neither the wildcard step nor
\* the fixed step issues an alias-mutation request or a delete request.
C2_NoRequestOnRerun ==
    (rerun /\ options.alias) =>
        \A i \in 1..Len(requests) : ~Mutation(requests[i])

\* C2 amended: on such a repeated invocation the wildcard step issues no
\* alias-mutation and no delete request and no step issues a delete request;
\* the fixed step re-issues one combined request per resolved index, which
\* removes the fixed alias from the one index it adds it to.
C2_RerunOnlyReassignsFixed ==
    (rerun /\ options.alias) =>
        \A i \in 1..Len(requests) :
            Mutation(requests[i]) =>
                /\ requests[i].op = "update_aliases"
                /\ requests[i].stage = "fixed"
                /\ requests[i].remove = {requests[i].add}

C2_Witness ==
    /\ Done /\ rerun /\ options.alias
    /\ \E i \in 1..Len(requests) :
        /\ requests[i].op = "update_aliases"
        /\ requests[i].stage = "fixed"
        /\ requests[i].result = "ok"
    /\ \E i \in 1..Len(requests) :
        /\ requests[i].op = "get_alias"
        /\ requests[i].stage = "wildcard"
        /\ requests[i].result = "ok"

\* C3: a wildcard alias that resolved to an existing index when the
\* invocation started resolves to an existing index in every state between
\* two cluster requests of the invocation, and when it has ended.
C3_WildcardNeverAbsent ==
    \A name \in AllFamilies :
        GetAlias0(WildcardAlias(name)) # {} => GetAlias(WildcardAlias(name)) # {}

C3_Witness ==
    /\ pc = "w_delete"
    /\ GetAlias0(WildcardAlias(index)) # {}
    /\ GetAlias(WildcardAlias(index)) \cap GetAlias0(WildcardAlias(index)) = {}

\* C4 as stated: the fixed alias of a document type the invocation
\* repopulates, if it resolved to an existing index when the invocation
\* started, resolves to an existing index in every state between two cluster
\* requests of the invocation.
C4_FixedNeverAbsent ==
    \A m \in models :
        GetAlias0(DocAlias(m)) # {} => GetAlias(DocAlias(m)) # {}

C6_FixedOnCurrentIndex ==
    (Done /\ options.alias) =>
        \A m \in models :
            GetAlias(DocAlias(m)) = {IndexName(options.index_base_id, m)}

\* C7: no wildcard alias changes before its family's wildcard step, every
\* index named in a delete request was resolved by the family's wildcard
\* alias at that point, and no index written by, or named under the run
\* identifier of, the invocation is named in a delete request.
C7_DeleteOnlyPreviousTarget ==
    /\ pc = "w_get" =>
        \A name \in families : GetAlias(WildcardAlias(name)) = GetAlias0(WildcardAlias(name))
    /\ \A i \in 1..Len(requests) :
        requests[i].op = "delete" =>
            /\ requests[i].remove \subseteq GetAlias0(WildcardAlias(requests[i].index))
            /\ requests[i].remove \cap written = {}
            /\ \A n \in requests[i].remove :
                ~StartsWith(n, Str(options.index_base_id) \o <<"-">>)

C7_Witness ==
    /\ Done
    /\ \E i \in 1..Len(requests) :
        /\ requests[i].op = "delete"
        /\ requests[i].result = "ok"
        /\ Cardinality(requests[i].remove) = 2
        /\ requests[i].remove \cap indices = {}

\* C8: in every reachable state the indexes a wildcard alias resolves to are
\* all named under one run identifier.
C8_WildcardSingleRun ==
    \A name \in AllFamilies :
        \E r \in RunIds :
            \A i \in GetAlias(WildcardAlias(name)) : StartsWith(i, Str(r) \o <<"-">>)

C8_Witness ==
    /\ runs = 2
    /\ \E name \in AllFamilies :
        /\ Cardinality(GetAlias(WildcardAlias(name))) = 2
        /\ \A r \in RunIds :
            \E i \in indices : StartsWith(i, Str(r) \o <<"-">> \o name \o <<"-">>)

\* C9: an invocation whose selector list holds a selector matching no
\* registered model, also next to selectors that match, has ended with a
\* CommandError naming such a selector, and has issued no cluster request and
\* changed nothing in the cluster; no other invocation ends with that error.
C9_UnknownSelectorFails ==
    /\ unmatched # {} =>
        /\ outcome = "CommandError"
        /\ message \in unmatched
        /\ pc = "idle"
        /\ issued = NoneIssued
        /\ requests = <<>>
        /\ written = {}
        /\ indices = indices0
        /\ aliases = aliases0
    /\ outcome = "CommandError" => unmatched # {}

C9_Witness ==
    /\ outcome = "CommandError"
    /\ message = <<"n", "o">>
    /\ matched
    /\ runs = 2
    /\ aliases # {}

\* C10 as stated: when the population of a data type has failed the
\* invocation is over, no refresh, alias or delete request was issued, the
\* alias relation is the one the invocation started with, and no index the
\* invocation has written to is referenced by an alias.
C10_PopulateFailureLeavesWrittenUnaliased ==
    failed = "populate" =>
        /\ pc = "idle" /\ outcome = "TransportError"
        /\ issued.refresh = 0 /\ requests = <<>>
        /\ aliases = aliases0
        /\ \A i \in written : \A p \in aliases : p[2] # i

\* C10 amended: ... and no index the invocation has created is referenced by
\* an alias; an index of an earlier invocation with the same run identifier
\* that the invocation has written to again keeps the aliases it had.
C10_PopulateFailureLeavesAliases ==
    failed = "populate" =>
        /\ pc = "idle" /\ outcome = "TransportError"
        /\ issued.refresh = 0 /\ requests = <<>>
        /\ aliases = aliases0
        /\ \A i \in written \ indices0 : \A p \in aliases : p[2] # i
        /\ \A i \in written \cap indices0 :
            {p \in aliases : p[2] = i} = {p \in aliases0 : p[2] = i}

C10_Witness ==
    /\ failed = "populate"
    /\ written \ indices0 # {}
    /\ written \cap indices0 # {}
    /\ \E p \in aliases : p[2] \in written

\* the physical indexes of a family, whatever run created them
FamilyIndexes(name, I) ==
    {i \in I : \E q \in RunIds : StartsWith(i, Str(q) \o <<"-">> \o name \o <<"-">>)}

\* the physical indexes of a family that carry the run identifier r
RunIndexes(r, name, I) ==
    {i \in I : StartsWith(i, Str(r) \o <<"-">> \o name \o <<"-">>)}

\* C11: when an invocation with alias update and garbage collection enabled
\* has returned normally, whatever invocations came before it, every physical
\* index of a processed family that still exists carries the run identifier
\* of that invocation.
C11_NoOrphanedIndexes ==
    (Done /\ options.alias /\ options.wipe_old_indexes) =>
        \A name \in GetIndices(models) :
            FamilyIndexes(name, indices) = RunIndexes(options.index_base_id, name, indices)

\* the positions in the log of the alias mutations and deletes that the
\* wildcard step of a family has issued
WildcardMutations(name) ==
    {k \in 1..Len(requests) :
        /\ requests[k].stage = "wildcard"
        /\ requests[k].index = name
        /\ Mutation(requests[k])}

\* C12: when the read of a family's wildcard alias reports that the alias
\* does not exist, the wildcard step issues, right after the read, exactly one
\* update_aliases request, which has no remove action and adds the alias to
\* {run_id}-{family}-*, and it issues no delete, with garbage collection on
\* or off.
C12_FirstRunCreatesOnly ==
    \A i \in 1..Len(requests) :
        (/\ requests[i].op = "get_alias"
         /\ requests[i].stage = "wildcard"
         /\ requests[i].result = "notfound") =>
            LET name == requests[i].index
            IN  /\ WildcardMutations(name) =
                     IF pc = "w_create" /\ index = name THEN {} ELSE {i + 1}
                /\ \A k \in WildcardMutations(name) :
                     /\ requests[k].op = "update_aliases"
                     /\ requests[k].alias = name \o alias_wildcard_pattern
                     /\ requests[k].remove = {}
                     /\ requests[k].add =
                          Str(options.index_base_id) \o <<"-">> \o name \o <<"-", "*">>

C12_Witness ==
    /\ Done
    /\ options.wipe_old_indexes
    /\ indices0 # {}
    /\ Len(requests) >= 2
    /\ requests[1].op = "get_alias" /\ requests[1].result = "notfound"
    /\ requests[2].op = "update_aliases" /\ requests[2].result = "ok"
    /\ WildcardMutations(requests[1].index) = {2}

\* the wildcard alias of a family resolved, when the invocation started,
\* only to indexes of runs other than the current one
OnOtherRun(name) ==
    /\ GetAlias0(WildcardAlias(name)) # {}
    /\ RunIndexes(options.index_base_id, name, GetAlias0(WildcardAlias(name))) = {}

\* the wildcard step of a family has issued the swap: one successful request
\* removing the alias from every index it resolved to and adding it to the
\* pattern of the current run
Swapped(name) ==
    \E k \in 1..Len(requests) :
        /\ requests[k].op = "update_aliases"
        /\ requests[k].stage = "wildcard"
        /\ requests[k].index = name
        /\ requests[k].remove = GetAlias0(WildcardAlias(name))
        /\ requests[k].add = Pattern(options.index_base_id, name)
        /\ requests[k].result = "ok"

\* the delete requests of the invocation
Deletes == {k \in 1..Len(requests) : requests[k].op = "delete"}

\* C13: when an invocation with alias update has returned normally and the
\* wildcard alias of a processed family resolved to the indexes of an earlier
\* run, the swap was issued; with garbage collection on exactly the indexes
\* the alias resolved to were deleted, with garbage collection off no delete
\* was issued and every index that existed before still exists.
C13_GarbageCollectionToggle ==
    (Done /\ options.alias) =>
        \A name \in GetIndices(models) :
            OnOtherRun(name) =>
                /\ Swapped(name)
                /\ IF options.wipe_old_indexes
                   THEN /\ \E k \in Deletes :
                             requests[k].remove = GetAlias0(WildcardAlias(name))
                        /\ indices = (indices0 \cup written) \ GetAlias0(WildcardAlias(name))
                   ELSE /\ Deletes = {}
                        /\ indices0 \subseteq indices

C15_SwapOnDifferentRun ==
    \A i \in 1..Len(requests) :
        (/\ requests[i].op = "get_alias"
         /\ requests[i].stage = "wildcard"
         /\ requests[i].result = "ok"
         /\ OnOtherRun(requests[i].index)
         /\ pc # "w_swap") =>
            /\ Len(requests) > i
            /\ requests[i + 1].op = "update_aliases"
            /\ requests[i + 1].stage = "wildcard"
            /\ requests[i + 1].remove = GetAlias0(requests[i].alias)
            /\ requests[i + 1].add =
                 Str(options.index_base_id) \o <<"-">> \o requests[i].index \o <<"-", "*">>

\* the positions in the log of the requests a step has issued for a family
StageRequests(stage, name) ==
    {k \in 1..Len(requests) : requests[k].stage = stage /\ requests[k].index = name}

\* the largest position of a non-empty set of positions
Last(S) == CHOOSE k \in S : \A j \in S : j <= k

\* the wildcard step of a family has raised: its last request failed and no
\* except branch of the step took the failure up
WildcardRaised(name) ==
    /\ StageRequests("wildcard", name) # {}
    /\ LET r == requests[Last(StageRequests("wildcard", name))]
       IN  \/ r.result = "error"
           \/ r.result = "notfound" /\ r.op = "update_aliases" /\ r.remove = {}

\* C16: a request of the fixed step for a family comes after every request of
\* the wildcard step for that family, the wildcard step has issued at least
\* its alias read and has not raised; when the wildcard step of a family has
\* raised the invocation is over and no request of the fixed step was issued
\* for that family.
C16_FixedAfterWildcard ==
    \A name \in AllFamilies :
        /\ \A i \in StageRequests("fixed", name) :
            /\ StageRequests("wildcard", name) # {}
            /\ \A k \in StageRequests("wildcard", name) : k < i
            /\ ~WildcardRaised(name)
        /\ WildcardRaised(name) =>
            /\ pc = "idle" /\ outcome \in {"TransportError", "NotFoundError"}
            /\ StageRequests("fixed", name) = {}

C16_Witness ==
    /\ Done
    /\ \E name \in AllFamilies :
        /\ Cardinality(StageRequests("wildcard", name)) >= 2
        /\ \E i \in StageRequests("fixed", name) :
            requests[i].op = "update_aliases" /\ requests[i].result = "ok"

\* C17: a delete request comes right after a successful request of the same
\* family that removed the wildcard alias from the very indexes the delete
\* names and added it to the pattern of the current run; after a swap request
\* that failed no delete is issued.
C17_DeleteAfterSuccessfulSwap ==
    /\ \A i \in Deletes :
        /\ i > 1
        /\ requests[i - 1].op = "update_aliases"
        /\ requests[i - 1].stage = "wildcard"
        /\ requests[i - 1].index = requests[i].index
        /\ requests[i - 1].remove = requests[i].remove
        /\ requests[i - 1].remove # {}
        /\ requests[i - 1].add = Pattern(options.index_base_id, requests[i].index)
        /\ requests[i - 1].result = "ok"
    /\ \A k \in 1..Len(requests) :
        (/\ requests[k].op = "update_aliases"
         /\ requests[k].stage = "wildcard"
         /\ requests[k].remove # {}
         /\ requests[k].result # "ok") =>
            \A i \in Deletes : requests[i].index # requests[k].index

C17_Witness ==
    /\ Deletes # {}
    /\ \A i \in Deletes : requests[i].result = "ok" /\ requests[i].remove \subseteq indices0
    /\ Done

\* C18: in every state of an invocation, with n the number of resolved
\* document types: a bulk load has been issued only after n template saves,
\* all successful; a refresh has been issued only with the refresh toggle on,
\* after n successful bulk loads, once, on {run_id}-*; an alias read, alias
\* mutation or delete has been issued only after n successful bulk loads,
\* and after the refresh when the toggle is on; a normal return with the toggle on has issued the refresh; with
\* the alias toggle off no alias mutation or delete is issued.
C18_StageOrdering ==
    LET n == Cardinality(models)
        populated ==
            /\ issued.templates = n
            /\ issued.bulk = n
            /\ failed \notin {"templates", "populate"}
    IN  /\ issued.templates <= n /\ issued.bulk <= n
        /\ issued.bulk > 0 => (issued.templates = n /\ failed # "templates")
        /\ issued.refresh > 0 =>
            /\ options.refresh_new_indexes
            /\ populated
            /\ issued.refresh = 1
            /\ issued.refreshed = {Str(options.index_base_id) \o <<"-", "*">>}
        /\ requests # <<>> =>
            /\ populated
            /\ failed # "refresh"
            /\ issued.refresh = IF options.refresh_new_indexes THEN 1 ELSE 0
        /\ Done => issued.refresh = IF options.refresh_new_indexes THEN 1 ELSE 0
        /\ ~options.alias => \A k \in 1..Len(requests) : ~Mutation(requests[k])

C18_Witness ==
    /\ Done
    /\ options.refresh_new_indexes
    /\ options.alias
    /\ Cardinality(models) = 2
    /\ issued.refresh = 1
    /\ \E k \in 1..Len(requests) : Mutation(requests[k])

\* the positions in the log of the alias mutations of the fixed step
FixedMutations ==
    {k \in 1..Len(requests) :
        requests[k].stage = "fixed" /\ requests[k].op = "update_aliases"}

\* the add action of a request names one index that exists, not a pattern
AddsConcreteIndex(r) ==
    /\ r.add \in indices0 \cup written
    /\ \A j \in 1..Len(r.add) : r.add[j] # "*"

\* C19 as stated: a mutation of the fixed step that adds an alias to the
\* index {run_id}-{family}-{doc_suffix} of the current run names the alias
\* {family}{fixed_suffix}{doc_suffix}, the suffix being what is left of the
\* index name without its leading {run_id}-{family}-, and the add action
\* names that one concrete index.
C19_FixedAliasNaming ==
    \A k \in FixedMutations :
        /\ AddsConcreteIndex(requests[k])
        /\ \A m \in Registry :
            requests[k].add = IndexName(options.index_base_id, m) =>
                requests[k].alias = m.index \o alias_fixed_pattern \o m.doc

\* C19 amended: ... names the alias {family}{fixed_suffix}-{doc_suffix}: what
\* is taken off the index name is the text {run_id}-{family}, without the
\* dash that follows it.
C19_FixedAliasKeepsDash ==
    \A k \in FixedMutations :
        /\ AddsConcreteIndex(requests[k])
        /\ \A m \in Registry :
            requests[k].add = IndexName(options.index_base_id, m) =>
                requests[k].alias = m.index \o alias_fixed_pattern \o <<"-">> \o m.doc

C19_Witness ==
    /\ Done
    /\ \E k \in FixedMutations, m \in Registry :
        /\ requests[k].add = IndexName(options.index_base_id, m)
        /\ requests[k].remove # {}
        /\ requests[k].result = "ok"
    /\ \E k \in FixedMutations : requests[k].remove = {} /\ requests[k].result = "ok"

\* C20: the add-only request of the wildcard step comes right after a read of
\* the wildcard alias that reported the alias missing, and after nothing
\* else; a swap or a delete that fails, with not found or with any other
\* error, is the last request of the invocation, which does not return
\* normally.
C20_NotFoundOnlyFromRead ==
    \A k \in 1..Len(requests) :
        /\ (/\ requests[k].op = "update_aliases"
            /\ requests[k].stage = "wildcard"
            /\ requests[k].remove = {}) =>
                /\ k > 1
                /\ requests[k - 1].op = "get_alias"
                /\ requests[k - 1].stage = "wildcard"
                /\ requests[k - 1].index = requests[k].index
                /\ requests[k - 1].result = "notfound"
        /\ (/\ requests[k].stage = "wildcard"
            /\ Mutation(requests[k])
            /\ requests[k].remove # {}
            /\ requests[k].result # "ok") =>
                /\ k = Len(requests)
                /\ outcome # "ok"

====
